---- MODULE Spec2Model ----
(***************************************************************************)
(* A model of the mailbox tools of gbroiles/imap_count:                    *)
(*   - ResilientIMAP._retry_operation / _connect, in the two variants of   *)
(*     imap_count.py ("count") and imap_delete.py ("delete")  (SpecRetry); *)
(*   - move_to_trash_explicit_fast of imap_delete2.py         (SpecMove);  *)
(*   - the threaded sender census of imap_count.py            (SpecCensus);*)
(*   - the slicing of the message numbers into chunks         (SpecChunk); *)
(*   - the aggregation of the senders and the printed table   (SpecReport);*)
(*   - the start of the four programs, up to the selected folder, and the  *)
(*     exit status of the process                             (SpecEntry); *)
(*   - the reading of the senders of one chunk in fetch_chunk (SpecFetch). *)
(* Each specification drives its own group of variables and leaves the     *)
(* other groups at their idle values.                                      *)
(***************************************************************************)
EXTENDS Integers, Sequences, FiniteSets, TLC

(***************************************************************************)
(* Bounds of the model.                                                    *)
(***************************************************************************)
\* largest retry budget (self.retries / args.retries) explored
MaxRetries == 3
\* largest args.retries explored for move_to_trash_explicit_fast
MaxMoveRetries == 2
\* largest number of messages in the source folder
MaxMsgs == 3
\* largest chunk size explored (the programs use 100 and 1000)
MaxChunk == 2
\* worker threads of the census explored (the program starts up to 5)
MaxWorkers == 1
\* largest number of chunks of the census
MaxCensusChunks == 2
\* largest number of chunks whose senders are aggregated into a report
MaxReportChunks == 2
\* longest run of one address in the senders of one chunk
MaxRun == 5

(***************************************************************************)
(* What imaplib can answer.  A command returns a status ("OK", "NO") or    *)
(* raises: IMAP4.abort, socket.error and EOFError are the connection-level *)
(* errors, IMAP4.error ("error") is the protocol-level one.                *)
(***************************************************************************)
ConnectionLevel == {"abort", "socket", "eof"}

VARIABLES
    \* ---- one call of ResilientIMAP._retry_operation (SpecRetry) ----
    r_variant,          \* "count" (imap_count.py) or "delete" (imap_delete.py)
    r_retries,          \* self.retries
    r_pc,               \* position inside _retry_operation
    r_attempt,          \* the loop variable attempt
    r_last_exception,   \* last_exception ("None" or a connection-level error)
    r_mail,             \* imaplib state of self.mail
    r_current_folder,   \* self.current_folder ("None" or a folder name)
    r_shutdown,         \* shutdown_flag (imap_count.py only)
    r_result,           \* what the caller of _retry_operation gets
    r_trace,            \* history: protocol calls, sleeps and reconnects made
    \* ---- one run of move_to_trash_explicit_fast (SpecMove) ----
    mv_pc,              \* position inside move_to_trash_explicit_fast
    mv_creds,           \* GMAIL_ACCT and GMAIL_PASS are both set
    mv_dry_run,         \* args.dry_run
    mv_retries,         \* args.retries
    mv_chunk_size,      \* chunk_size
    mv_mail,            \* imaplib state of mail ("None": mail = None)
    mv_mail_ids,        \* mail_ids, the answer of the search
    mv_i,               \* the loop variable i
    mv_attempt,         \* the loop variable attempt
    mv_batch_success,   \* batch_success
    mv_success_count,   \* success_count
    mv_exit,            \* exit status of the process (-1 while running)
    mv_src,             \* server: messages in the source folder
    mv_deleted,         \* server: messages of the source folder flagged \Deleted
    mv_trash,           \* server: copies of each message in [Gmail]/Trash
    mv_matching,        \* server: messages of the folder from the sender
    mv_start,           \* history: mv_src and mv_deleted before the run
    mv_copied,          \* history: COPY returned OK in the current attempt
    mv_store_log,       \* history: STORE commands issued, [batch, copied]
    mv_flagged,         \* history: messages flagged \Deleted by this run
    mv_succeeded,       \* history: batches whose COPY and STORE both returned OK
    mv_outcome,         \* history: how each batch ended
    mv_stop,            \* history: what ended the chunk loop early
    mv_cmds,            \* history: protocol commands issued
    mv_purges,          \* history: purges of the source folder carried out
    \* ---- one run of the threaded census, imap_count.py (SpecCensus) ----
    c_pc,               \* position of each thread: 0 is the main thread
    c_hpc,              \* position of signal_handler ("none": no interrupt yet)
    c_shutdown,         \* shutdown_flag
    c_lock,             \* holder of connection_lock
    c_mail,             \* imaplib state of the connection of each thread's session
    c_tl,               \* per worker: thread_local has the attribute mail
    c_active,           \* active_connections, by the worker owning the session
    c_attempt,          \* per thread: attempt of its _retry_operation
    c_res,              \* per thread: what its _retry_operation gave
    c_nchunks,          \* len(chunks)
    c_queue,            \* the executor's work queue (chunks submitted, not started)
    c_fut,              \* per chunk: state of its future
    c_cur,              \* per worker: the chunk it is handling (0: none)
    c_collected,        \* futures the as_completed loop has consumed
    c_todo,             \* final cleanup: sessions still to log out
    c_after_flag,       \* history: the fetch_chunk call started with the flag set
    c_att_after,        \* history: the current attempt started with the flag set
    c_given_up,         \* history: chunks and attempts given up at a shutdown check
    c_orphans,          \* history: authenticated connections no session refers to
    \* ---- the slicing of email_ids / mail_ids into chunks (SpecChunk) ----
    k_pc,               \* position in the loop over range(0, L, C)
    k_ids,              \* the identifier sequence
    k_size,             \* the chunk size C
    k_i,                \* the loop variable i
    k_chunks,           \* the chunks produced so far, in order
    \* ---- the aggregation and the report of list_top_senders (SpecReport) ----
    p_variant,          \* "count": imap_count.py, "delete": imap_delete.py
    p_pc,               \* position: collecting the chunks, or the table printed
    p_chunks,           \* per chunk: the sender addresses its FETCH gave
    p_done,             \* chunks whose senders have been added
    p_all,              \* all_senders / senders
    p_table,            \* the printed rows, top to bottom
    \* ---- the start of each program and its exit status (SpecEntry) ----
    e_prog,             \* "count", "delete", "move" (imap_delete2.py), "folders"
    e_user,             \* GMAIL_ACCT is set
    e_pass,             \* GMAIL_PASS is set
    e_args,             \* the command line has the arguments the program needs
    e_pc,               \* position of the program
    e_mail,             \* imaplib state of the connection ("None": no connection)
    e_net,              \* history: a connection to the server was opened
    e_mutated,          \* history: a COPY, STORE or EXPUNGE was sent
    e_stop,             \* history: the step at which the run was given up
    e_exit,             \* exit status of the process (-1 while it runs)
    \* ---- fetch_chunk reading the senders of one chunk (SpecFetch) ----
    f_pc,               \* position inside fetch_chunk
    f_msgs,             \* per message of the chunk: its From header on the server
    f_attempt,          \* attempt of the FETCH inside _retry_operation
    f_status,           \* status returned by mail.fetch
    f_data,             \* msg_data: the response parts of the FETCH that returned
    f_j,                \* number of response parts already handled
    f_senders,          \* senders
    f_contrib           \* history: per message, the addresses it has contributed

retryVars == <<r_variant, r_retries, r_pc, r_attempt, r_last_exception, r_mail,
               r_current_folder, r_shutdown, r_result, r_trace>>

moveVars == <<mv_pc, mv_creds, mv_dry_run, mv_retries, mv_chunk_size, mv_mail,
              mv_mail_ids, mv_i, mv_attempt, mv_batch_success, mv_success_count,
              mv_exit, mv_src, mv_deleted, mv_trash, mv_matching, mv_start,
              mv_copied, mv_store_log, mv_flagged, mv_succeeded, mv_outcome,
              mv_stop, mv_cmds, mv_purges>>

censusVars == <<c_pc, c_hpc, c_shutdown, c_lock, c_mail, c_tl, c_active, c_attempt,
                c_res, c_nchunks, c_queue, c_fut, c_cur, c_collected, c_todo,
                c_after_flag, c_att_after, c_given_up, c_orphans>>

chunkVars == <<k_pc, k_ids, k_size, k_i, k_chunks>>

reportVars == <<p_variant, p_pc, p_chunks, p_done, p_all, p_table>>

entryVars == <<e_prog, e_user, e_pass, e_args, e_pc, e_mail, e_net, e_mutated,
               e_stop, e_exit>>

fetchVars == <<f_pc, f_msgs, f_attempt, f_status, f_data, f_j, f_senders, f_contrib>>

vars == <<retryVars, moveVars, censusVars, chunkVars, reportVars, entryVars,
          fetchVars>>

\* the variables each program leaves alone
notRetry == <<moveVars, censusVars, chunkVars, reportVars, entryVars, fetchVars>>

notMove == <<retryVars, censusVars, chunkVars, reportVars, entryVars, fetchVars>>

notCensus == <<retryVars, moveVars, chunkVars, reportVars, entryVars, fetchVars>>

notChunk == <<retryVars, moveVars, censusVars, reportVars, entryVars, fetchVars>>

notReport == <<retryVars, moveVars, censusVars, chunkVars, entryVars, fetchVars>>

notEntry == <<retryVars, moveVars, censusVars, chunkVars, reportVars, fetchVars>>

notFetch == <<retryVars, moveVars, censusVars, chunkVars, reportVars, entryVars>>

(***************************************************************************)
(* The idle values of each group: what its variables hold under the        *)
(* specifications of the other programs.                                   *)
(***************************************************************************)
NoResult == [kind |-> "none", val |-> "none", from |-> "none"]

RetryIdle ==
    /\ r_variant = "count"
    /\ r_retries = 0
    /\ r_pc = "idle"
    /\ r_attempt = 0
    /\ r_last_exception = "None"
    /\ r_mail = "None"
    /\ r_current_folder = "None"
    /\ r_shutdown = FALSE
    /\ r_result = NoResult
    /\ r_trace = <<>>

MoveIdle ==
    /\ mv_pc = "idle"
    /\ mv_creds = FALSE
    /\ mv_dry_run = FALSE
    /\ mv_retries = 0
    /\ mv_chunk_size = 1
    /\ mv_mail = "None"
    /\ mv_mail_ids = <<>>
    /\ mv_i = 0
    /\ mv_attempt = 0
    /\ mv_batch_success = FALSE
    /\ mv_success_count = 0
    /\ mv_exit = -1
    /\ mv_src = {}
    /\ mv_deleted = {}
    /\ mv_trash = <<>>
    /\ mv_matching = {}
    /\ mv_start = [src |-> {}, deleted |-> {}]
    /\ mv_copied = FALSE
    /\ mv_store_log = {}
    /\ mv_flagged = {}
    /\ mv_succeeded = {}
    /\ mv_outcome = <<>>
    /\ mv_stop = "none"
    /\ mv_cmds = {}
    /\ mv_purges = <<>>

CensusIdle ==
    /\ c_pc = <<>>
    /\ c_hpc = "idle"
    /\ c_shutdown = FALSE
    /\ c_lock = "free"
    /\ c_mail = <<>>
    /\ c_tl = <<>>
    /\ c_active = {}
    /\ c_attempt = <<>>
    /\ c_res = <<>>
    /\ c_nchunks = 0
    /\ c_queue = <<>>
    /\ c_fut = <<>>
    /\ c_cur = <<>>
    /\ c_collected = {}
    /\ c_todo = {}
    /\ c_after_flag = <<>>
    /\ c_att_after = <<>>
    /\ c_given_up = {}
    /\ c_orphans = 0

ChunkIdle ==
    /\ k_pc = "idle"
    /\ k_ids = <<>>
    /\ k_size = 1
    /\ k_i = 0
    /\ k_chunks = <<>>

ReportIdle ==
    /\ p_variant = "count"
    /\ p_pc = "idle"
    /\ p_chunks = <<>>
    /\ p_done = {}
    /\ p_all = <<>>
    /\ p_table = <<>>

EntryIdle ==
    /\ e_prog = "count"
    /\ e_user = FALSE
    /\ e_pass = FALSE
    /\ e_args = FALSE
    /\ e_pc = "idle"
    /\ e_mail = "None"
    /\ e_net = FALSE
    /\ e_mutated = FALSE
    /\ e_stop = "none"
    /\ e_exit = -1

FetchIdle ==
    /\ f_pc = "idle"
    /\ f_msgs = <<>>
    /\ f_attempt = 0
    /\ f_status = "none"
    /\ f_data = <<>>
    /\ f_j = 0
    /\ f_senders = <<>>
    /\ f_contrib = <<>>

(***************************************************************************)
(* ResilientIMAP._retry_operation and _connect.                            *)
(***************************************************************************)
\* The answers of getattr(self.mail, op_name)(*args): imaplib refuses SEARCH,
\* FETCH and STORE outside the SELECTED state with IMAP4.error before
\* anything is sent.
OpOutcomes(mail) ==
    IF mail = "SELECTED" THEN {"OK", "NO", "error"} \cup ConnectionLevel
    ELSE {"error"}

\* except (imaplib.IMAP4.abort, socket.error, EOFError) as e
CaughtAlsoProtocol(e) == e \in ConnectionLevel \cup {"error"}

Caught(e) == e \in ConnectionLevel

\* if attempt < self.retries - 1: time.sleep(2); self._connect()
ReconnectFollows(attempt, retries) == attempt < retries - 1

\* What _connect can make of the session: the old connection is logged out,
\* then IMAP4_SSL(), login() and select(current_folder) run in turn.
\*   "refused": IMAP4_SSL() raised, self.mail is still the old, logged out object
\*   "nologin": login() raised, self.mail is the new unauthenticated object
\*   "noselect": the re-select raised or returned NO
\*   "ok": authenticated, and the remembered folder selected again
ConnectOutcomes == {"ok", "refused", "nologin", "noselect"}

MailAfterConnect(mail, folder, out) ==
    CASE out = "refused"  -> IF mail = "None" THEN "None" ELSE "LOGOUT"
      [] out = "nologin"  -> "NONAUTH"
      [] out = "noselect" -> "AUTH"
      [] OTHER            -> IF folder = "None" THEN "AUTH" ELSE "SELECTED"

\* imap_count.py wraps the body of _connect in try/except Exception and only
\* logs; imap_delete.py lets the exception out (a NO answer of the re-select
\* raises nothing in either).
ConnectRaises(variant, out) ==
    variant = "delete" /\ out \in {"refused", "nologin"}

\* for attempt in range(self.retries):  [if shutdown_flag.is_set(): return 'ABORT', []]
RetryAttemptStart ==
    /\ UNCHANGED notRetry
    /\ r_pc = "loop"
    /\ IF r_attempt >= r_retries
       THEN /\ r_pc' = "exhausted"
            /\ UNCHANGED r_result
       ELSE IF r_variant = "count" /\ r_shutdown
            THEN /\ r_pc' = "done"
                 /\ r_result' = [kind |-> "return", val |-> "ABORT", from |-> "check"]
            ELSE /\ r_pc' = "invoke"
                 /\ UNCHANGED r_result
    /\ UNCHANGED <<r_variant, r_retries, r_attempt, r_last_exception, r_mail,
                   r_current_folder, r_shutdown, r_trace>>

\* func = getattr(self.mail, op_name); return func(*args, **kwargs)
RetryInvoke ==
    /\ UNCHANGED notRetry
    /\ r_pc = "invoke"
    /\ \E out \in OpOutcomes(r_mail) :
        /\ r_trace' = Append(r_trace, [ev |-> "invoke", out |-> out])
        /\ IF out \in {"OK", "NO"}
           THEN /\ r_pc' = "done"
                /\ r_result' = [kind |-> "return", val |-> out, from |-> "op"]
                /\ UNCHANGED r_last_exception
           ELSE IF Caught(out)
                THEN /\ r_pc' = "handler"
                     /\ r_last_exception' = out
                     /\ UNCHANGED r_result
                ELSE /\ r_pc' = "done"
                     /\ r_result' = [kind |-> "raise", val |-> out, from |-> "op"]
                     /\ UNCHANGED r_last_exception
    /\ UNCHANGED <<r_variant, r_retries, r_attempt, r_mail, r_current_folder,
                   r_shutdown>>

\* the except clause after last_exception = e
RetryHandler ==
    /\ UNCHANGED notRetry
    /\ r_pc = "handler"
    /\ IF ReconnectFollows(r_attempt, r_retries)
       THEN /\ r_pc' = "sleep"
            /\ UNCHANGED r_attempt
       ELSE /\ r_pc' = "loop"
            /\ r_attempt' = r_attempt + 1
    /\ UNCHANGED <<r_variant, r_retries, r_last_exception, r_mail,
                   r_current_folder, r_shutdown, r_result, r_trace>>

\* time.sleep(2)
RetrySleep ==
    /\ UNCHANGED notRetry
    /\ r_pc = "sleep"
    /\ r_pc' = "connect"
    /\ r_trace' = Append(r_trace, [ev |-> "sleep", out |-> "2s"])
    /\ UNCHANGED <<r_variant, r_retries, r_attempt, r_last_exception, r_mail,
                   r_current_folder, r_shutdown, r_result>>

\* self._connect() inside the except clause
RetryConnect ==
    /\ UNCHANGED notRetry
    /\ r_pc = "connect"
    /\ \E out \in ConnectOutcomes :
        /\ r_mail' = MailAfterConnect(r_mail, r_current_folder, out)
        /\ r_trace' = Append(r_trace, [ev |-> "connect", out |-> out])
        /\ IF ConnectRaises(r_variant, out)
           THEN /\ r_pc' = "done"
                /\ r_result' = [kind |-> "raise",
                                val |-> IF out = "refused" THEN "socket" ELSE "error",
                                from |-> "reconnect"]
                /\ UNCHANGED r_attempt
           ELSE /\ r_pc' = "loop"
                /\ r_attempt' = r_attempt + 1
                /\ UNCHANGED r_result
    /\ UNCHANGED <<r_variant, r_retries, r_last_exception, r_current_folder,
                   r_shutdown>>

\* raise last_exception (raise None is a TypeError)
RetryRaiseLast ==
    /\ UNCHANGED notRetry
    /\ r_pc = "exhausted"
    /\ r_pc' = "done"
    /\ r_result' = IF r_last_exception = "None"
                   THEN [kind |-> "raise", val |-> "TypeError", from |-> "raise"]
                   ELSE [kind |-> "raise", val |-> r_last_exception, from |-> "op"]
    /\ UNCHANGED <<r_variant, r_retries, r_attempt, r_last_exception, r_mail,
                   r_current_folder, r_shutdown, r_trace>>

\* signal_handler: shutdown_flag.set(), while the call is under way
RetryShutdownSet ==
    /\ UNCHANGED notRetry
    /\ r_variant = "count"
    /\ r_pc \notin {"done", "idle"}
    /\ ~r_shutdown
    /\ r_shutdown' = TRUE
    /\ UNCHANGED <<r_variant, r_retries, r_pc, r_attempt, r_last_exception, r_mail,
                   r_current_folder, r_result, r_trace>>

\* A session on which select(folder) was called (the folder is remembered
\* whatever select answered), at the call of search/fetch/store.
RetryInit ==
    /\ r_variant \in {"count", "delete"}
    /\ r_retries \in 0..MaxRetries
    /\ r_pc = "loop"
    /\ r_attempt = 0
    /\ r_last_exception = "None"
    /\ r_mail \in {"SELECTED", "AUTH"}
    /\ r_current_folder = "INBOX"
    /\ r_shutdown = FALSE
    /\ r_result = NoResult
    /\ r_trace = <<>>
    /\ MoveIdle
    /\ CensusIdle
    /\ ChunkIdle
    /\ ReportIdle
    /\ EntryIdle
    /\ FetchIdle

RetryNext ==
    \/ RetryAttemptStart
    \/ RetryInvoke
    \/ RetryHandler
    \/ RetrySleep
    \/ RetryConnect
    \/ RetryRaiseLast
    \/ RetryShutdownSet

SpecRetry == RetryInit /\ [][RetryNext]_vars

(***************************************************************************)
(* Claims about _retry_operation, checked under SpecRetry.                 *)
(***************************************************************************)
InvokeIdx == {i \in 1..Len(r_trace) : r_trace[i].ev = "invoke"}

ConnectIdx == {i \in 1..Len(r_trace) : r_trace[i].ev = "connect"}

LastInvokeOut ==
    IF InvokeIdx = {} THEN "None"
    ELSE r_trace[CHOOSE i \in InvokeIdx : \A j \in InvokeIdx : j <= i].out

EveryAttemptFailed == \A i \in InvokeIdx : r_trace[i].out \in ConnectionLevel

RaisedToCaller == r_pc = "done" /\ r_result.kind = "raise"

\* C9 (as claimed, for every budget N >= 1): the operation is invoked at
\* most N times, every retry comes right after the fixed delay and a full
\* reconnect that selected the remembered folder again, and when every
\* attempt failed with a connection-level error the caller gets the
\* connection-level error of the last attempt of the operation, not an error
\* of the reconnect and not another exception type.  (With N = 0 the call
\* ends in the TypeError of `raise None`, which the claim excludes too.)
C9_LastConnectionErrorSurfaces ==
    r_retries >= 1 =>
        /\ Cardinality(InvokeIdx) <= r_retries
        /\ \A i \in InvokeIdx : i > 1 =>
              /\ r_trace[i-1] = [ev |-> "connect", out |-> "ok"]
              /\ r_trace[i-2].ev = "sleep"
        /\ (RaisedToCaller /\ EveryAttemptFailed) =>
              /\ r_result.from = "op"
              /\ r_result.val \in ConnectionLevel
              /\ r_result.val = LastInvokeOut

\* C10 (as claimed): when a protocol-level error of the operation reaches
\* the caller, the operation was invoked exactly once and no reconnect was
\* made.
C10_InvokedExactlyOnce ==
    (RaisedToCaller /\ r_result.val = "error" /\ r_result.from = "op") =>
        /\ Cardinality(InvokeIdx) = 1
        /\ ConnectIdx = {}

\* C10 (amended): a protocol-level error raised by the operation is never
\* retried: the invocation that raised it is the last thing the call does
\* (no later invocation, delay or reconnect), and the error reaches the
\* caller unchanged; when it is raised by the first attempt the operation was
\* invoked exactly once and no reconnect was made.
C10_ProtocolErrorNotRetried ==
    \A i \in InvokeIdx : r_trace[i].out = "error" =>
        /\ i = Len(r_trace)
        /\ r_pc = "done"
        /\ r_result = [kind |-> "raise", val |-> "error", from |-> "op"]
        /\ (i = 1 => Cardinality(InvokeIdx) = 1 /\ ConnectIdx = {})

\* The server rejected the command on a selected connection, after an
\* earlier attempt had failed on the connection and been retried.
C10_Witness ==
    /\ RaisedToCaller
    /\ r_result = [kind |-> "raise", val |-> "error", from |-> "op"]
    /\ r_mail = "SELECTED"
    /\ Cardinality(InvokeIdx) = 2

\* _connect has run at least once since the call began
Reconnected == ConnectIdx # {}

\* C18: after a reconnect, the next operation is issued on a connection that
\* is authenticated and has the remembered folder selected again, never on
\* one that is logged out, unauthenticated or without the folder.
C18_OperationOnlyOnReselectedFolder ==
    (r_pc = "invoke" /\ Reconnected) => r_mail = "SELECTED"

\* the connection or the login of the i-th _connect failed
ConnectFailed(i) == r_trace[i].out \in {"refused", "nologin"}

\* C19: _connect returns normally only with a live authenticated connection;
\* when the connection or the login fails, _connect ends the call by raising
\* the failure to the caller.
C19_ConnectAuthenticatesOrRaises ==
    \A i \in ConnectIdx : ConnectFailed(i) =>
        /\ i = Len(r_trace)
        /\ r_pc = "done"
        /\ r_result.kind = "raise"
        /\ r_result.from = "reconnect"

(***************************************************************************)
(* move_to_trash_explicit_fast (imap_delete2.py).                          *)
(* The server holds the source folder (mv_src, mv_deleted) and the Trash   *)
(* folder (mv_trash).  A command changes the server only when it returns   *)
(* OK: COPY adds one copy of each message of the chunk to Trash, STORE     *)
(* sets \Deleted on the chunk, EXPUNGE and the CLOSE of a folder selected  *)
(* read-write remove the messages flagged \Deleted.                        *)
(***************************************************************************)
Min(a, b) == IF a <= b THEN a ELSE b

Range(f) == {f[x] : x \in DOMAIN f}

\* messages[0].split(): the message numbers of the answer, ascending
SetToSeq(S) ==
    CHOOSE f \in [1..Cardinality(S) -> S] :
        \A a, b \in 1..Cardinality(S) : a < b => f[a] < f[b]

\* ids[i:i + size]
SliceShort(ids, i, size) == SubSeq(ids, i + 1, Min(i + size - 1, Len(ids)))

Slice(ids, i, size) == SubSeq(ids, i + 1, Min(i + size, Len(ids)))

\* range(0, total, size) has this many values
NBatches(total, size) == (total + size - 1) \div size

\* chunk = mail_ids[i:i + chunk_size]; batch_index = i // chunk_size
Chunk == Slice(mv_mail_ids, mv_i, mv_chunk_size)

BatchIndex == mv_i \div mv_chunk_size

BatchMsgs(k) == Range(Slice(mv_mail_ids, k * mv_chunk_size, mv_chunk_size))

\* What a COPY or STORE can answer: a status, IMAP4.abort, or another
\* exception ("exc": IMAP4.error, socket.timeout, ...).
CmdOutcomes == {"OK", "NO", "exc", "abort"}

\* if copy_status == 'OK': store_status, _ = mail.store(...)
StoreGuardAny(copy_status) == copy_status \in {"OK", "NO"}

StoreGuard(copy_status) == copy_status = "OK"

\* except imaplib.IMAP4.abort: raise   (except Exception: only a warning)
ReraisedAny(e) == e \in {"abort", "exc"}

Reraised(e) == e = "abort"

\* success_count += len(chunk); batch_success = True; break
NoBreak == "retry_wait"

AfterStoreOK == "batch_end"

\* the statements inside the outer try block
LoopPcs == {"loop", "attempt", "copy", "store", "retry_wait", "batch_end"}

TryPcs == {"connect", "login", "select", "search", "expunge"} \cup LoopPcs

mvConfig == <<mv_creds, mv_dry_run, mv_retries, mv_chunk_size, mv_matching, mv_start>>

mvServer == <<mv_src, mv_deleted, mv_trash>>

mvLoop == <<mv_i, mv_attempt, mv_batch_success, mv_success_count>>

mvHist == <<mv_copied, mv_store_log, mv_flagged, mv_succeeded, mv_outcome, mv_stop>>

\* if not user or not password: logger.error(...); sys.exit(1)
MoveStart ==
    /\ UNCHANGED notMove
    /\ mv_pc = "start"
    /\ IF mv_creds
       THEN mv_pc' = "connect" /\ UNCHANGED mv_exit
       ELSE mv_pc' = "done" /\ mv_exit' = 1
    /\ UNCHANGED <<mvConfig, mvServer, mvLoop, mvHist, mv_mail, mv_mail_ids,
                   mv_cmds, mv_purges>>

\* mail = imaplib.IMAP4_SSL(...); except socket.error: sys.exit(1)
MoveConnect ==
    /\ UNCHANGED notMove
    /\ mv_pc = "connect"
    /\ \E out \in {"ok", "socket"} :
        IF out = "ok"
        THEN mv_mail' = "NONAUTH" /\ mv_pc' = "login" /\ UNCHANGED mv_exit
        ELSE mv_pc' = "finally" /\ mv_exit' = 1 /\ UNCHANGED mv_mail
    /\ UNCHANGED <<mvConfig, mvServer, mvLoop, mvHist, mv_mail_ids, mv_cmds,
                   mv_purges>>

\* mail.login(user, password); except imaplib.IMAP4.error: sys.exit(1)
MoveLogin ==
    /\ UNCHANGED notMove
    /\ mv_pc = "login"
    /\ mv_cmds' = mv_cmds \cup {"LOGIN"}
    /\ \E out \in {"ok", "error", "exc"} :
        CASE out = "ok"    -> mv_mail' = "AUTH" /\ mv_pc' = "select" /\ UNCHANGED mv_exit
          [] out = "error" -> mv_pc' = "finally" /\ mv_exit' = 1 /\ UNCHANGED mv_mail
          [] OTHER         -> mv_pc' = "finally" /\ UNCHANGED <<mv_mail, mv_exit>>
    /\ UNCHANGED <<mvConfig, mvServer, mvLoop, mvHist, mv_mail_ids, mv_purges>>

\* status, _ = mail.select(f'"{args.mailbox}"'); if status != 'OK': return
MoveSelect ==
    /\ UNCHANGED notMove
    /\ mv_pc = "select"
    /\ mv_cmds' = mv_cmds \cup {"SELECT"}
    /\ \E out \in {"OK", "NO", "exc"} :
        IF out = "OK"
        THEN mv_mail' = "SELECTED" /\ mv_pc' = "search"
        ELSE mv_mail' = "AUTH" /\ mv_pc' = "finally"
    /\ UNCHANGED <<mvConfig, mvServer, mvLoop, mvHist, mv_mail_ids, mv_exit,
                   mv_purges>>

\* status, data = mail.search(None, search_criterion) up to the start of the
\* chunk loop: the returns on a failed search, on no match and on --dry-run
MoveSearch ==
    /\ UNCHANGED notMove
    /\ mv_pc = "search"
    /\ mv_cmds' = mv_cmds \cup {"SEARCH"}
    /\ \E out \in {"OK", "NO", "exc"} :
        IF out = "OK"
        THEN /\ mv_mail_ids' = SetToSeq(mv_matching \cap mv_src)
             /\ mv_pc' = IF mv_mail_ids' = <<>> \/ mv_dry_run THEN "finally" ELSE "loop"
        ELSE /\ mv_pc' = "finally"
             /\ UNCHANGED mv_mail_ids
    /\ mv_i' = 0
    /\ UNCHANGED <<mvConfig, mvServer, mvHist, mv_mail, mv_attempt,
                   mv_batch_success, mv_success_count, mv_exit, mv_purges>>

\* for i in range(0, total_emails, chunk_size): ...; after the loop,
\* if success_count > 0: the expunge
MoveLoop ==
    /\ UNCHANGED notMove
    /\ mv_pc = "loop"
    /\ IF mv_i < Len(mv_mail_ids)
       THEN /\ mv_pc' = "attempt"
            /\ mv_batch_success' = FALSE
            /\ mv_attempt' = 0
       ELSE /\ mv_pc' = IF mv_success_count > 0 THEN "expunge" ELSE "finally"
            /\ UNCHANGED <<mv_batch_success, mv_attempt>>
    /\ UNCHANGED <<mvConfig, mvServer, mvHist, mv_mail, mv_mail_ids, mv_i,
                   mv_success_count, mv_exit, mv_cmds, mv_purges>>

\* for attempt in range(args.retries):
MoveAttempt ==
    /\ UNCHANGED notMove
    /\ mv_pc = "attempt"
    /\ mv_pc' = IF mv_attempt < mv_retries THEN "copy" ELSE "batch_end"
    /\ mv_copied' = FALSE
    /\ UNCHANGED <<mvConfig, mvServer, mvLoop, mv_store_log, mv_flagged,
                   mv_succeeded, mv_outcome, mv_stop, mv_mail, mv_mail_ids,
                   mv_exit, mv_cmds, mv_purges>>

\* copy_status, _ = mail.copy(id_str, trash_folder)
MoveCopy ==
    /\ UNCHANGED notMove
    /\ mv_pc = "copy"
    /\ mv_cmds' = mv_cmds \cup {"COPY"}
    /\ \E out \in CmdOutcomes :
        /\ mv_trash' = IF out = "OK"
                       THEN [m \in DOMAIN mv_trash |->
                                IF m \in Range(Chunk) THEN mv_trash[m] + 1
                                ELSE mv_trash[m]]
                       ELSE mv_trash
        /\ mv_copied' = (out = "OK")
        /\ IF out \in {"OK", "NO"}
           THEN /\ mv_pc' = IF StoreGuard(out) THEN "store" ELSE "retry_wait"
                /\ UNCHANGED <<mv_outcome, mv_stop>>
           ELSE IF Reraised(out)
                THEN /\ mv_pc' = "finally"
                     /\ mv_outcome' = [mv_outcome EXCEPT ![BatchIndex] = "aborted"]
                     /\ mv_stop' = out
                ELSE /\ mv_pc' = "retry_wait"
                     /\ UNCHANGED <<mv_outcome, mv_stop>>
    /\ UNCHANGED <<mvConfig, mvLoop, mv_src, mv_deleted, mv_store_log, mv_flagged,
                   mv_succeeded, mv_mail, mv_mail_ids, mv_exit, mv_purges>>

\* store_status, _ = mail.store(id_str, '+FLAGS', '\\Deleted') and, on OK,
\* success_count += len(chunk); batch_success = True; break
MoveStore ==
    /\ UNCHANGED notMove
    /\ mv_pc = "store"
    /\ mv_cmds' = mv_cmds \cup {"STORE"}
    /\ mv_store_log' = mv_store_log \cup {[batch |-> BatchIndex, copied |-> mv_copied]}
    /\ \E out \in CmdOutcomes :
        /\ IF out = "OK"
           THEN /\ mv_deleted' = mv_deleted \cup (Range(Chunk) \cap mv_src)
                /\ mv_flagged' = mv_flagged \cup Range(Chunk)
                /\ mv_success_count' = mv_success_count + Len(Chunk)
                /\ mv_batch_success' = TRUE
                /\ mv_succeeded' = IF mv_copied THEN mv_succeeded \cup {BatchIndex}
                                   ELSE mv_succeeded
                /\ mv_pc' = AfterStoreOK
                /\ UNCHANGED <<mv_outcome, mv_stop>>
           ELSE /\ UNCHANGED <<mv_deleted, mv_flagged, mv_success_count,
                               mv_batch_success, mv_succeeded>>
                /\ IF out # "NO" /\ Reraised(out)
                   THEN /\ mv_pc' = "finally"
                        /\ mv_outcome' = [mv_outcome EXCEPT ![BatchIndex] = "aborted"]
                        /\ mv_stop' = out
                   ELSE /\ mv_pc' = "retry_wait"
                        /\ UNCHANGED <<mv_outcome, mv_stop>>
    /\ UNCHANGED <<mvConfig, mv_src, mv_trash, mv_i, mv_attempt, mv_copied,
                   mv_mail, mv_mail_ids, mv_exit, mv_purges>>

\* if attempt < args.retries - 1: time.sleep(args.delay); then the next attempt
MoveRetryWait ==
    /\ UNCHANGED notMove
    /\ mv_pc = "retry_wait"
    /\ mv_attempt' = mv_attempt + 1
    /\ mv_pc' = "attempt"
    /\ UNCHANGED <<mvConfig, mvServer, mvHist, mv_mail, mv_mail_ids, mv_i,
                   mv_batch_success, mv_success_count, mv_exit, mv_cmds, mv_purges>>

\* if not batch_success: logger.error(...); pbar.update(len(chunk))
MoveBatchEnd ==
    /\ UNCHANGED notMove
    /\ mv_pc = "batch_end"
    /\ mv_outcome' = [mv_outcome EXCEPT ![BatchIndex] =
                         IF mv_batch_success THEN "success" ELSE "failed"]
    /\ mv_i' = mv_i + mv_chunk_size
    /\ mv_pc' = "loop"
    /\ UNCHANGED <<mvConfig, mvServer, mv_copied, mv_store_log, mv_flagged,
                   mv_succeeded, mv_stop, mv_mail, mv_mail_ids, mv_attempt,
                   mv_batch_success, mv_success_count, mv_exit, mv_cmds, mv_purges>>

\* every chunk of the search was processed: it succeeded or used up its budget
AllBatchesEnded ==
    \A k \in DOMAIN mv_outcome :
        mv_outcome[k] \in {"success", "failed"} \/ k \in mv_succeeded

\* mail.expunge() inside try/except Exception
MoveExpunge ==
    /\ UNCHANGED notMove
    /\ mv_pc = "expunge"
    /\ mv_cmds' = mv_cmds \cup {"EXPUNGE"}
    /\ \E out \in {"OK", "NO", "exc"} :
        IF out = "OK"
        THEN /\ mv_src' = mv_src \ mv_deleted
             /\ mv_deleted' = {}
             /\ mv_purges' = Append(mv_purges, [cmd |-> "EXPUNGE", removed |-> mv_deleted,
                                                after_all |-> AllBatchesEnded])
        ELSE UNCHANGED <<mv_src, mv_deleted, mv_purges>>
    /\ mv_pc' = "finally"
    /\ UNCHANGED <<mvConfig, mvLoop, mvHist, mv_trash, mv_mail, mv_mail_ids, mv_exit>>

\* except KeyboardInterrupt: the user interrupts the run inside the try block
MoveInterrupt ==
    /\ UNCHANGED notMove
    /\ mv_pc \in TryPcs
    /\ mv_pc' = "finally"
    /\ mv_stop' = IF mv_pc \in LoopPcs THEN "interrupt" ELSE mv_stop
    /\ UNCHANGED <<mvConfig, mvServer, mvLoop, mv_copied, mv_store_log, mv_flagged,
                   mv_succeeded, mv_outcome, mv_mail, mv_mail_ids, mv_exit,
                   mv_cmds, mv_purges>>

\* finally: if mail: try: if mail.state == 'SELECTED': mail.close()
MoveFinally ==
    /\ UNCHANGED notMove
    /\ mv_pc = "finally"
    /\ IF mv_mail = "None"
       THEN /\ mv_pc' = "done"
            /\ mv_exit' = IF mv_exit = -1 THEN 0 ELSE mv_exit
       ELSE /\ mv_pc' = IF mv_mail = "SELECTED" THEN "close" ELSE "logout"
            /\ UNCHANGED mv_exit
    /\ UNCHANGED <<mvConfig, mvServer, mvLoop, mvHist, mv_mail, mv_mail_ids,
                   mv_cmds, mv_purges>>

\* mail.close(): the folder was selected read-write, so the server removes
\* the messages flagged \Deleted; an exception skips mail.logout()
MoveClose ==
    /\ UNCHANGED notMove
    /\ mv_pc = "close"
    /\ mv_cmds' = mv_cmds \cup {"CLOSE"}
    /\ mv_mail' = "AUTH"
    /\ \E out \in {"OK", "exc"} :
        IF out = "OK"
        THEN /\ mv_src' = mv_src \ mv_deleted
             /\ mv_deleted' = {}
             /\ mv_purges' = Append(mv_purges, [cmd |-> "CLOSE", removed |-> mv_deleted,
                                                after_all |-> AllBatchesEnded])
             /\ mv_pc' = "logout"
             /\ UNCHANGED mv_exit
        ELSE /\ mv_pc' = "done"
             /\ mv_exit' = IF mv_exit = -1 THEN 0 ELSE mv_exit
             /\ UNCHANGED <<mv_src, mv_deleted, mv_purges>>
    /\ UNCHANGED <<mvConfig, mvLoop, mvHist, mv_trash, mv_mail_ids>>

\* mail.logout(): imaplib sets the state to LOGOUT before it sends the command
MoveLogout ==
    /\ UNCHANGED notMove
    /\ mv_pc = "logout"
    /\ mv_cmds' = mv_cmds \cup {"LOGOUT"}
    /\ mv_mail' = "LOGOUT"
    /\ mv_pc' = "done"
    /\ mv_exit' = IF mv_exit = -1 THEN 0 ELSE mv_exit
    /\ UNCHANGED <<mvConfig, mvServer, mvLoop, mvHist, mv_mail_ids, mv_purges>>

\* The state at the call: a source folder of up to MaxMsgs messages, the
\* first ones from the sender, at most one already flagged \Deleted; Trash
\* holds no copy yet.
MoveInit ==
    /\ mv_pc = "start"
    /\ mv_creds \in BOOLEAN
    /\ mv_dry_run \in BOOLEAN
    /\ mv_retries \in 0..MaxMoveRetries
    /\ mv_chunk_size \in 1..MaxChunk
    /\ mv_mail = "None"
    /\ mv_mail_ids = <<>>
    /\ mv_i = 0
    /\ mv_attempt = 0
    /\ mv_batch_success = FALSE
    /\ mv_success_count = 0
    /\ mv_exit = -1
    /\ \E n \in 0..MaxMsgs :
        /\ mv_src = 1..n
        /\ mv_trash = [m \in 1..n |-> 0]
        /\ mv_matching \in {1..m : m \in 0..n}
        /\ mv_deleted \in {{}} \cup {{m} : m \in 1..n}
    /\ mv_start = [src |-> mv_src, deleted |-> mv_deleted]
    /\ mv_copied = FALSE
    /\ mv_store_log = {}
    /\ mv_flagged = {}
    /\ mv_succeeded = {}
    /\ mv_outcome = [k \in 0..(NBatches(Cardinality(mv_matching), mv_chunk_size) - 1)
                        |-> "pending"]
    /\ mv_stop = "none"
    /\ mv_cmds = {}
    /\ mv_purges = <<>>
    /\ RetryIdle
    /\ CensusIdle
    /\ ChunkIdle
    /\ ReportIdle
    /\ EntryIdle
    /\ FetchIdle

MoveNext ==
    \/ MoveStart
    \/ MoveConnect
    \/ MoveLogin
    \/ MoveSelect
    \/ MoveSearch
    \/ MoveLoop
    \/ MoveAttempt
    \/ MoveCopy
    \/ MoveStore
    \/ MoveRetryWait
    \/ MoveBatchEnd
    \/ MoveExpunge
    \/ MoveInterrupt
    \/ MoveFinally
    \/ MoveClose
    \/ MoveLogout

SpecMove == MoveInit /\ [][MoveNext]_vars

(***************************************************************************)
(* Claims about move_to_trash_explicit_fast, checked under SpecMove.       *)
(***************************************************************************)
MoveEnded == mv_pc = "done"

\* the run went past the dry-run return into the chunk loop
LoopEntered == "COPY" \in mv_cmds \/ mv_stop # "none" \/ \E k \in DOMAIN mv_outcome : mv_outcome[k] # "pending"

CopiesOf(k) == IF BatchMsgs(k) = {} THEN 0
               ELSE mv_trash[CHOOSE m \in BatchMsgs(k) : TRUE]

Batches == 0..(NBatches(Len(mv_mail_ids), mv_chunk_size) - 1)

RECURSIVE SumLen(_)
SumLen(S) == IF S = {} THEN 0
             ELSE LET k == CHOOSE x \in S : TRUE
                  IN  Cardinality(BatchMsgs(k)) + SumLen(S \ {k})

\* C1: STORE +FLAGS \Deleted is issued only in an attempt whose COPY returned
\* OK, so every message flagged \Deleted by the run has a copy in Trash made
\* by the COPY of its chunk earlier in the same attempt.
C1_StoreOnlyAfterCopyOK ==
    /\ mv_pc = "store" => mv_copied
    /\ \A e \in mv_store_log : e.copied
    /\ \A m \in mv_flagged :
          /\ mv_trash[m] >= 1
          /\ \E e \in mv_store_log : e.copied /\ m \in BatchMsgs(e.batch)

\* A complete run in which one chunk was flagged after its COPY returned OK
\* and another chunk, whose COPY failed in each of two or more attempts, got
\* no STORE at all.
C1_Witness ==
    /\ MoveEnded
    /\ mv_stop = "none"
    /\ mv_retries >= 2
    /\ mv_flagged # {}
    /\ \E k \in Batches :
          /\ CopiesOf(k) = 0
          /\ \A e \in mv_store_log : e.batch # k

Removals == {p \in 1..Len(mv_purges) : mv_purges[p].removed # {}}

\* C3 (as claimed): over a non-dry-run run, flagged messages are purged from
\* the source folder (by EXPUNGE or by the CLOSE of the teardown) never when
\* no chunk succeeded, at most once in all, and only after the processing
\* of every chunk has ended.  Stated on the purges that removed
\* a message (a CLOSE that finds nothing flagged is not held against the
\* claim) and for a source folder that held no flagged message at the start.
C3_PurgeGating ==
    (MoveEnded /\ ~mv_dry_run /\ mv_start.deleted = {}) =>
        /\ mv_succeeded = {} => Removals = {} /\ mv_src = mv_start.src
        /\ Cardinality(Removals) <= 1
        /\ \A p \in Removals : mv_purges[p].after_all

\* C4 (as claimed, for a source folder that held no flagged message): when
\* the run ends with success_count = 0, the source folder holds the same
\* messages and flags and Trash the same messages as before the run.
C4_ZeroSuccessLeavesFoldersUnchanged ==
    (MoveEnded /\ mv_success_count = 0 /\ mv_start.deleted = {}) =>
        /\ mv_src = mv_start.src
        /\ mv_deleted = mv_start.deleted
        /\ \A m \in DOMAIN mv_trash : mv_trash[m] = 0

\* C5: success_count is the sum of the sizes of the chunks for which COPY and
\* STORE both returned OK in one attempt, each chunk counted once, and never
\* exceeds the number of matched messages.
C5_SuccessCountExact ==
    /\ mv_success_count = SumLen(mv_succeeded)
    /\ mv_success_count <= Len(mv_mail_ids)
    /\ \A k \in mv_succeeded : CopiesOf(k) >= 1 /\ BatchMsgs(k) \subseteq mv_flagged

\* A run ended with a chunk counted that needed a second attempt (its first
\* COPY returned OK, the STORE failed) and a short last chunk counted too.
C5_Witness ==
    /\ MoveEnded
    /\ mv_stop = "none"
    /\ \E k \in mv_succeeded : CopiesOf(k) >= 2
    /\ \E k \in mv_succeeded : Cardinality(BatchMsgs(k)) < mv_chunk_size

\* C6 (as claimed): a --dry-run run issues no COPY, no STORE and no purge,
\* and the source folder holds at the end the messages it held at the start,
\* teardown included.
C6_DryRunLeavesSourceUnchanged ==
    (MoveEnded /\ mv_dry_run) =>
        /\ mv_cmds \cap {"COPY", "STORE", "EXPUNGE"} = {}
        /\ \A p \in 1..Len(mv_purges) : mv_purges[p].removed = {}
        /\ mv_src = mv_start.src

\* C22: a chunk whose COPY returned OK is never copied again: COPY is about
\* to be issued only for a chunk that has no copy in Trash yet, and no
\* message ever has more than one copy there.
C22_ChunkCopiedAtMostOnce ==
    /\ mv_pc = "copy" => CopiesOf(BatchIndex) = 0
    /\ \A m \in DOMAIN mv_trash : mv_trash[m] <= 1

(***************************************************************************)
(* The threaded sender census (imap_count.py): the main thread (thread 0)  *)
(* running list_top_senders, the worker threads of the executor running    *)
(* fetch_chunk, and signal_handler, which runs on the main thread and      *)
(* suspends it.                                                            *)
(***************************************************************************)
\* retries=3, the default every ResilientIMAP of imap_count.py is built with
CensusRetries == 3

Threads == 0..MaxWorkers

Workers == 1..MaxWorkers

\* if shutdown_flag.is_set(): return []          (fetch_chunk)
ChunkGivenUp(flag) == flag

\* if shutdown_flag.is_set(): return 'ABORT', [] (_retry_operation)
AttemptNeverAborted(flag) == FALSE

AttemptAborted(flag) == flag

\* ResilientIMAP.__init__: _connect() with no folder remembered yet
NewSessionOutcomes == {"ok", "refused", "nologin"}

\* imaplib states of a connection that has not been logged out
OpenMail == {"NONAUTH", "AUTH", "SELECTED"}

\* the positions of a thread inside _retry_operation
RetryPcs == {"r_loop", "r_invoke", "r_handler", "r_connect"}

\* The main thread runs unless signal_handler is running on it or has ended
\* the process.
MainRuns == c_hpc = "none"

Runs(t) == t \in Workers \/ MainRuns

cFrameMain == <<c_tl, c_active, c_cur, c_after_flag, c_orphans>>

cFrameWork == <<c_hpc, c_shutdown, c_nchunks, c_collected, c_todo>>

\* ---- _retry_operation, run by thread t on its own session ----

\* _retry_operation is left with a value or an exception: its locals are gone
CensusReturn(t, res) ==
    /\ c_pc' = [c_pc EXCEPT ![t] = "after_op"]
    /\ c_res' = [c_res EXCEPT ![t] = res]
    /\ c_attempt' = [c_attempt EXCEPT ![t] = 0]
    /\ c_att_after' = [c_att_after EXCEPT ![t] = FALSE]
    /\ c_given_up' = IF res = "ABORT" /\ t \in Workers
                     THEN c_given_up \cup {[kind |-> "attempt", chunk |-> c_cur[t],
                                           after |-> c_att_after[t]]}
                     ELSE c_given_up

\* for attempt in range(self.retries): if shutdown_flag.is_set(): return
\* 'ABORT', []; ...; raise last_exception.  The attempt began when the thread
\* arrived at the head of the loop, where c_att_after recorded the flag.
CensusRetryLoop(t) ==
    /\ UNCHANGED notCensus
    /\ Runs(t)
    /\ c_pc[t] = "r_loop"
    /\ IF c_attempt[t] >= CensusRetries
       THEN CensusReturn(t, "raise")
       ELSE IF AttemptAborted(c_shutdown)
            THEN CensusReturn(t, "ABORT")
            ELSE /\ c_pc' = [c_pc EXCEPT ![t] = "r_invoke"]
                 /\ UNCHANGED <<c_res, c_attempt, c_att_after, c_given_up>>
    /\ UNCHANGED <<cFrameMain, cFrameWork, c_lock, c_mail, c_queue, c_fut>>

\* return func(*args, **kwargs), or the except clause
CensusRetryInvoke(t) ==
    /\ UNCHANGED notCensus
    /\ Runs(t)
    /\ c_pc[t] = "r_invoke"
    /\ \E out \in OpOutcomes(c_mail[t]) :
        IF Caught(out)
        THEN /\ c_pc' = [c_pc EXCEPT ![t] = "r_handler"]
             /\ UNCHANGED <<c_res, c_attempt, c_att_after, c_given_up>>
        ELSE CensusReturn(t, IF out = "error" THEN "raise" ELSE out)
    /\ UNCHANGED <<cFrameMain, cFrameWork, c_lock, c_mail, c_queue, c_fut>>

\* if attempt < self.retries - 1: (sleep and reconnect), else the next attempt
CensusRetryHandler(t) ==
    /\ UNCHANGED notCensus
    /\ Runs(t)
    /\ c_pc[t] = "r_handler"
    /\ IF ReconnectFollows(c_attempt[t], CensusRetries)
       THEN /\ c_pc' = [c_pc EXCEPT ![t] = "r_connect"]
            /\ UNCHANGED <<c_attempt, c_att_after>>
       ELSE /\ c_pc' = [c_pc EXCEPT ![t] = "r_loop"]
            /\ c_attempt' = [c_attempt EXCEPT ![t] = c_attempt[t] + 1]
            /\ c_att_after' = [c_att_after EXCEPT ![t] = c_shutdown]
    /\ UNCHANGED <<cFrameMain, cFrameWork, c_given_up, c_lock, c_mail, c_res, c_queue, c_fut>>

\* time.sleep(2); self._connect(): the old connection is logged out, the new
\* one may be left unauthenticated or without the folder (errors are logged)
CensusRetryConnect(t) ==
    /\ UNCHANGED notCensus
    /\ Runs(t)
    /\ c_pc[t] = "r_connect"
    /\ \E out \in ConnectOutcomes :
        c_mail' = [c_mail EXCEPT ![t] = MailAfterConnect(c_mail[t], "INBOX", out)]
    /\ c_attempt' = [c_attempt EXCEPT ![t] = c_attempt[t] + 1]
    /\ c_att_after' = [c_att_after EXCEPT ![t] = c_shutdown]
    /\ c_pc' = [c_pc EXCEPT ![t] = "r_loop"]
    /\ UNCHANGED <<cFrameMain, cFrameWork, c_given_up, c_lock, c_res, c_queue, c_fut>>

\* ---- list_top_senders, on the main thread ----

\* main_conn = ResilientIMAP(...)
MainConstruct ==
    /\ UNCHANGED notCensus
    /\ MainRuns
    /\ c_pc[0] = "start"
    /\ \E out \in NewSessionOutcomes :
        c_mail' = [c_mail EXCEPT ![0] = MailAfterConnect("None", "None", out)]
    /\ c_pc' = [c_pc EXCEPT ![0] = "select"]
    /\ UNCHANGED <<cFrameMain, cFrameWork, c_given_up, c_lock, c_attempt, c_res, c_queue, c_fut,
                   c_att_after>>

\* status, _ = main_conn.select(folder, readonly=True); a status other than
\* OK and every exception end list_top_senders with a return
MainSelect ==
    /\ UNCHANGED notCensus
    /\ MainRuns
    /\ c_pc[0] = "select"
    /\ IF c_mail[0] # "AUTH"
       THEN /\ c_pc' = [c_pc EXCEPT ![0] = "done"]
            /\ UNCHANGED <<c_mail, c_attempt, c_att_after>>
       ELSE \E out \in {"OK", "NO", "abort"} :
            IF out = "OK"
            THEN /\ c_mail' = [c_mail EXCEPT ![0] = "SELECTED"]
                 /\ c_pc' = [c_pc EXCEPT ![0] = "r_loop"]
                 /\ c_attempt' = [c_attempt EXCEPT ![0] = 0]
                 /\ c_att_after' = [c_att_after EXCEPT ![0] = c_shutdown]
            ELSE /\ c_pc' = [c_pc EXCEPT ![0] = "done"]
                 /\ UNCHANGED <<c_mail, c_attempt, c_att_after>>
    /\ UNCHANGED <<cFrameMain, cFrameWork, c_given_up, c_lock, c_res, c_queue, c_fut>>

\* status, messages = main_conn.search(None, 'ALL') has answered:
\* if status != 'OK': return; email_ids = ...; main_conn.logout()
MainAfterSearch ==
    /\ UNCHANGED notCensus
    /\ MainRuns
    /\ c_pc[0] = "after_op"
    /\ IF c_res[0] = "OK"
       THEN /\ c_mail' = [c_mail EXCEPT ![0] = "LOGOUT"]
            /\ c_pc' = [c_pc EXCEPT ![0] = "submit"]
       ELSE /\ c_pc' = [c_pc EXCEPT ![0] = "done"]
            /\ UNCHANGED c_mail
    /\ UNCHANGED <<cFrameMain, cFrameWork, c_given_up, c_lock, c_attempt, c_res, c_queue, c_fut,
                   c_att_after>>

\* futures = {executor.submit(fetch_chunk, chunk, ...): chunk for chunk in chunks}
MainSubmit ==
    /\ UNCHANGED notCensus
    /\ MainRuns
    /\ c_pc[0] = "submit"
    /\ c_queue' = [c \in 1..c_nchunks |-> c]
    /\ c_pc' = [c_pc EXCEPT ![0] = "wait"]
    /\ UNCHANGED <<cFrameMain, cFrameWork, c_given_up, c_lock, c_mail, c_attempt, c_res, c_fut,
                   c_att_after>>

\* for future in as_completed(futures): if shutdown_flag.is_set(): break; ...
MainCollect ==
    /\ UNCHANGED notCensus
    /\ MainRuns
    /\ c_pc[0] = "wait"
    /\ \E c \in 1..c_nchunks :
        /\ c_fut[c] \in {"done", "failed"}
        /\ c \notin c_collected
        /\ IF c_shutdown
           THEN c_pc' = [c_pc EXCEPT ![0] = "leave"] /\ UNCHANGED c_collected
           ELSE c_collected' = c_collected \cup {c} /\ UNCHANGED c_pc
    /\ UNCHANGED <<cFrameMain, c_given_up, c_hpc, c_shutdown, c_nchunks, c_todo, c_lock, c_mail,
                   c_attempt, c_res, c_queue, c_fut, c_att_after>>

\* the end of the as_completed loop and of the with blocks (the executor
\* waits for its workers), then: if not shutdown_flag.is_set(): with
\* connection_lock: ...
MainLeaveExecutor ==
    /\ UNCHANGED notCensus
    /\ MainRuns
    /\ c_pc[0] \in {"wait", "leave"}
    /\ c_pc[0] = "wait" => c_collected = 1..c_nchunks
    /\ c_queue = <<>>
    /\ \A w \in Workers : c_pc[w] = "idle"
    /\ IF c_shutdown
       THEN /\ c_pc' = [c_pc EXCEPT ![0] = "report"]
            /\ UNCHANGED <<c_lock, c_todo>>
       ELSE /\ c_lock = "free"
            /\ c_lock' = "main"
            /\ c_todo' = c_active
            /\ c_pc' = [c_pc EXCEPT ![0] = "cleanup"]
    /\ UNCHANGED <<cFrameMain, c_given_up, c_hpc, c_shutdown, c_nchunks, c_collected, c_mail,
                   c_attempt, c_res, c_queue, c_fut, c_att_after>>

\* for conn in active_connections: conn.logout()
MainCleanup ==
    /\ UNCHANGED notCensus
    /\ MainRuns
    /\ c_pc[0] = "cleanup"
    /\ IF c_todo = {}
       THEN /\ c_lock' = "free"
            /\ c_pc' = [c_pc EXCEPT ![0] = "report"]
            /\ UNCHANGED <<c_mail, c_todo>>
       ELSE \E w \in c_todo :
            /\ c_mail' = [c_mail EXCEPT ![w] = "LOGOUT"]
            /\ c_todo' = c_todo \ {w}
            /\ UNCHANGED <<c_lock, c_pc>>
    /\ UNCHANGED <<cFrameMain, c_given_up, c_hpc, c_shutdown, c_nchunks, c_collected, c_attempt,
                   c_res, c_queue, c_fut, c_att_after>>

\* sender_counts = Counter(all_senders) ... the printed table
MainReport ==
    /\ UNCHANGED notCensus
    /\ MainRuns
    /\ c_pc[0] = "report"
    /\ c_pc' = [c_pc EXCEPT ![0] = "done"]
    /\ UNCHANGED <<cFrameMain, cFrameWork, c_given_up, c_lock, c_mail, c_attempt, c_res, c_queue,
                   c_fut, c_att_after>>

\* ---- signal_handler ----

\* SIGINT: shutdown_flag.set()
HandlerSet ==
    /\ UNCHANGED notCensus
    /\ c_hpc = "none"
    /\ c_pc[0] # "done"
    /\ c_shutdown' = TRUE
    /\ c_hpc' = "lock"
    /\ UNCHANGED <<cFrameMain, c_given_up, c_nchunks, c_collected, c_todo, c_pc, c_lock, c_mail,
                   c_attempt, c_res, c_queue, c_fut, c_att_after>>

\* with connection_lock: for conn in active_connections: conn.logout()
HandlerLogout ==
    /\ UNCHANGED notCensus
    /\ c_hpc = "lock"
    /\ c_lock = "free"
    /\ c_mail' = [t \in Threads |-> IF t \in c_active THEN "LOGOUT" ELSE c_mail[t]]
    /\ c_hpc' = "exit"
    /\ UNCHANGED <<cFrameMain, c_given_up, c_shutdown, c_nchunks, c_collected, c_todo, c_pc,
                   c_lock, c_attempt, c_res, c_queue, c_fut, c_att_after>>

\* sys.exit(0): SystemExit unwinds the main thread; inside the with block
\* the executor first waits for its workers
HandlerExit ==
    /\ UNCHANGED notCensus
    /\ c_hpc = "exit"
    /\ c_hpc' = "exited"
    /\ c_pc' = [c_pc EXCEPT ![0] = IF c_pc[0] \in {"wait", "leave"} THEN "unwind"
                                   ELSE "done"]
    /\ UNCHANGED <<cFrameMain, c_given_up, c_shutdown, c_nchunks, c_collected, c_todo, c_lock,
                   c_mail, c_attempt, c_res, c_queue, c_fut, c_att_after>>

\* ThreadPoolExecutor.__exit__ during the unwinding: shutdown(wait=True)
MainUnwind ==
    /\ UNCHANGED notCensus
    /\ c_pc[0] = "unwind"
    /\ c_queue = <<>>
    /\ \A w \in Workers : c_pc[w] = "idle"
    /\ c_pc' = [c_pc EXCEPT ![0] = "done"]
    /\ UNCHANGED <<cFrameMain, cFrameWork, c_given_up, c_lock, c_mail, c_attempt, c_res, c_queue,
                   c_fut, c_att_after>>

\* ---- a worker thread: fetch_chunk and get_thread_connection ----

\* the worker takes the next work item: fetch_chunk(chunk, ...) is called
WorkerTake(w) ==
    /\ UNCHANGED notCensus
    /\ c_pc[w] = "idle"
    /\ c_queue # <<>>
    /\ c_cur' = [c_cur EXCEPT ![w] = Head(c_queue)]
    /\ c_queue' = Tail(c_queue)
    /\ c_fut' = [c_fut EXCEPT ![Head(c_queue)] = "running"]
    /\ c_after_flag' = [c_after_flag EXCEPT ![w] = c_shutdown]
    /\ c_pc' = [c_pc EXCEPT ![w] = "check"]
    /\ UNCHANGED <<cFrameWork, c_tl, c_active, c_given_up, c_orphans, c_lock, c_mail,
                   c_attempt, c_res, c_att_after>>

\* if shutdown_flag.is_set(): return []
WorkerCheck(w) ==
    /\ UNCHANGED notCensus
    /\ c_pc[w] = "check"
    /\ IF ChunkGivenUp(c_shutdown)
       THEN /\ c_pc' = [c_pc EXCEPT ![w] = "idle"]
            /\ c_fut' = [c_fut EXCEPT ![c_cur[w]] = "done"]
            /\ c_given_up' = c_given_up \cup {[kind |-> "chunk", chunk |-> c_cur[w],
                                               after |-> c_after_flag[w]]}
            /\ c_cur' = [c_cur EXCEPT ![w] = 0]
            /\ c_after_flag' = [c_after_flag EXCEPT ![w] = FALSE]
            /\ UNCHANGED c_att_after
       ELSE /\ c_pc' = [c_pc EXCEPT ![w] = IF c_tl[w] THEN "r_loop" ELSE "construct"]
            /\ c_att_after' = [c_att_after EXCEPT ![w] = c_tl[w] /\ c_shutdown]
            /\ UNCHANGED <<c_fut, c_given_up, c_cur, c_after_flag>>
    /\ UNCHANGED <<cFrameWork, c_tl, c_active, c_orphans, c_lock, c_mail, c_attempt,
                   c_res, c_queue>>

\* if not hasattr(thread_local, "mail"): conn = ResilientIMAP(...)
\* (a session whose select raised for an earlier chunk is dropped as it is)
WorkerConstruct(w) ==
    /\ UNCHANGED notCensus
    /\ c_pc[w] = "construct"
    /\ \E out \in NewSessionOutcomes :
        c_mail' = [c_mail EXCEPT ![w] = MailAfterConnect("None", "None", out)]
    /\ c_orphans' = c_orphans + (IF c_mail[w] \in OpenMail THEN 1 ELSE 0)
    /\ c_pc' = [c_pc EXCEPT ![w] = "select"]
    /\ UNCHANGED <<cFrameWork, c_tl, c_active, c_cur, c_after_flag, c_given_up, c_lock,
                   c_attempt, c_res, c_queue, c_fut, c_att_after>>

\* conn.select(folder, readonly=True); thread_local.mail = conn
\* (an exception of select leaves fetch_chunk: the future fails)
WorkerSelect(w) ==
    /\ UNCHANGED notCensus
    /\ c_pc[w] = "select"
    /\ \E out \in (IF c_mail[w] = "AUTH" THEN {"OK", "NO", "abort"} ELSE {"error"}) :
        IF out \in {"OK", "NO"}
        THEN /\ c_mail' = [c_mail EXCEPT ![w] = IF out = "OK" THEN "SELECTED" ELSE "AUTH"]
             /\ c_tl' = [c_tl EXCEPT ![w] = TRUE]
             /\ c_pc' = [c_pc EXCEPT ![w] = "register"]
             /\ UNCHANGED <<c_fut, c_cur>>
        ELSE /\ c_pc' = [c_pc EXCEPT ![w] = "idle"]
             /\ c_fut' = [c_fut EXCEPT ![c_cur[w]] = "failed"]
             /\ c_cur' = [c_cur EXCEPT ![w] = 0]
             /\ UNCHANGED <<c_mail, c_tl>>
    /\ UNCHANGED <<cFrameWork, c_active, c_after_flag, c_given_up, c_orphans, c_lock,
                   c_attempt, c_res, c_queue, c_att_after>>

\* with connection_lock: active_connections.append(conn)
WorkerRegister(w) ==
    /\ UNCHANGED notCensus
    /\ c_pc[w] = "register"
    /\ c_lock = "free"
    /\ c_active' = c_active \cup {w}
    /\ c_att_after' = [c_att_after EXCEPT ![w] = c_shutdown]
    /\ c_pc' = [c_pc EXCEPT ![w] = "r_loop"]
    /\ UNCHANGED <<cFrameWork, c_tl, c_cur, c_after_flag, c_given_up, c_orphans, c_lock,
                   c_mail, c_attempt, c_res, c_queue, c_fut>>

\* mail.fetch(...) has answered or raised (except Exception: logged);
\* return senders
WorkerAfterFetch(w) ==
    /\ UNCHANGED notCensus
    /\ c_pc[w] = "after_op"
    /\ c_pc' = [c_pc EXCEPT ![w] = "idle"]
    /\ c_fut' = [c_fut EXCEPT ![c_cur[w]] = "done"]
    /\ c_cur' = [c_cur EXCEPT ![w] = 0]
    /\ c_res' = [c_res EXCEPT ![w] = "none"]
    /\ UNCHANGED <<cFrameWork, c_tl, c_active, c_after_flag, c_given_up, c_orphans,
                   c_lock, c_mail, c_queue, c_attempt, c_att_after>>

\* The process at the call of list_top_senders: no session, no work.
CensusInit ==
    /\ c_pc = [t \in Threads |-> IF t = 0 THEN "start" ELSE "idle"]
    /\ c_hpc = "none"
    /\ c_shutdown = FALSE
    /\ c_lock = "free"
    /\ c_mail = [t \in Threads |-> "None"]
    /\ c_tl = [w \in Workers |-> FALSE]
    /\ c_active = {}
    /\ c_attempt = [t \in Threads |-> 0]
    /\ c_res = [t \in Threads |-> "none"]
    /\ c_nchunks \in 0..MaxCensusChunks
    /\ c_queue = <<>>
    /\ c_fut = [c \in 1..c_nchunks |-> "queued"]
    /\ c_cur = [w \in Workers |-> 0]
    /\ c_collected = {}
    /\ c_todo = {}
    /\ c_after_flag = [w \in Workers |-> FALSE]
    /\ c_att_after = [t \in Threads |-> FALSE]
    /\ c_given_up = {}
    /\ c_orphans = 0
    /\ RetryIdle
    /\ MoveIdle
    /\ ChunkIdle
    /\ ReportIdle
    /\ EntryIdle
    /\ FetchIdle

CensusNext ==
    \/ \E t \in Threads : CensusRetryLoop(t)
    \/ \E t \in Threads : CensusRetryInvoke(t)
    \/ \E t \in Threads : CensusRetryHandler(t)
    \/ \E t \in Threads : CensusRetryConnect(t)
    \/ MainConstruct
    \/ MainSelect
    \/ MainAfterSearch
    \/ MainSubmit
    \/ MainCollect
    \/ MainLeaveExecutor
    \/ MainCleanup
    \/ MainReport
    \/ HandlerSet
    \/ HandlerLogout
    \/ HandlerExit
    \/ MainUnwind
    \/ \E w \in Workers : WorkerTake(w)
    \/ \E w \in Workers : WorkerCheck(w)
    \/ \E w \in Workers : WorkerConstruct(w)
    \/ \E w \in Workers : WorkerSelect(w)
    \/ \E w \in Workers : WorkerRegister(w)
    \/ \E w \in Workers : WorkerAfterFetch(w)

SpecCensus == CensusInit /\ [][CensusNext]_vars

(***************************************************************************)
(* Claims about the threaded census, checked under SpecCensus.             *)
(***************************************************************************)
\* positions of a worker past the shutdown check of fetch_chunk
InChunkPcs == {"construct", "select", "register", "after_op"} \cup RetryPcs

\* positions of an attempt past the shutdown check of _retry_operation
InAttemptPcs == {"r_invoke", "r_handler", "r_connect"}

\* C7: once shutdown_flag is set, a fetch_chunk call that starts afterwards
\* never gets past its shutdown check (it opens no session and issues no
\* FETCH), and an attempt of _retry_operation that starts afterwards never
\* gets to invoke the operation or to reconnect.
C7_NothingStartsAfterShutdown ==
    /\ \A w \in Workers : c_after_flag[w] => c_pc[w] \notin InChunkPcs
    /\ \A t \in Threads : c_att_after[t] => c_pc[t] \notin InAttemptPcs

\* a chunk and a retry attempt, both started after the flag was set, were
\* given up at their checks
C7_Witness ==
    /\ c_shutdown
    /\ \E g \in c_given_up : g.kind = "chunk" /\ g.after
    /\ \E g \in c_given_up : g.kind = "attempt" /\ g.after

\* list_top_senders has returned or the process is exiting, and no worker
\* thread is left running
CensusEnded ==
    /\ c_pc[0] = "done"
    /\ c_queue = <<>>
    /\ \A w \in Workers : c_pc[w] = "idle"

\* C8: when the run has ended, every session it opened (the main connection
\* and every worker connection, registered or not) is logged out.
C8_EverySessionLoggedOut ==
    CensusEnded => /\ \A t \in Threads : c_mail[t] \notin OpenMail
                   /\ c_orphans = 0

\* signal_handler is at "with connection_lock:" while the lock is held by the
\* main thread, which does not run before the handler returns
HandlerBlockedByMain == c_hpc = "lock" /\ c_lock = "main"

\* C14: every retry loop makes at most its fixed number of attempts, and no
\* thread waits forever on connection_lock: the interrupt handler never
\* stands at a connection_lock that the (suspended) main thread holds in the
\* final cleanup.
C14_NoThreadWaitsForever ==
    /\ \A t \in Threads : c_attempt[t] <= CensusRetries
    /\ ~HandlerBlockedByMain

\* the step in which signal_handler logs the registered sessions out
HandlerLogsOut == c_hpc = "lock" /\ c_hpc' = "exit"

\* the worker is between the shutdown check and the return of fetch_chunk
InFlight(w) == c_pc[w] \in InChunkPcs

\* C17: after the flag is set, the registered worker sessions are logged out
\* only when no chunk that uses them is in flight: no session is logged out
\* while its worker is inside fetch_chunk.
C17_LogoutOnlyAfterInFlightChunks ==
    [][HandlerLogsOut => \A w \in c_active : ~InFlight(w)]_vars

\* the step in which worker w creates a ResilientIMAP session
Creates(w) == c_pc[w] = "construct" /\ c_pc'[w] = "select"

\* C20: a worker creates at most one session over the whole run: when it
\* creates one, it has not created one before (none whose connection was
\* opened), also when the folder selection of its earlier session failed.
C20_AtMostOneSessionPerWorker ==
    [][\A w \in Workers : Creates(w) => c_mail[w] = "None"]_vars

(***************************************************************************)
(* The slicing into chunks: chunks = [email_ids[i:i + CHUNK_SIZE] for i in *)
(* range(0, len(email_ids), CHUNK_SIZE)] of imap_count.py, and the loops   *)
(* "for i in range(0, total, chunk_size): chunk = ids[i:i + chunk_size]"   *)
(* of imap_delete.py and imap_delete2.py.                                  *)
(***************************************************************************)
\* the identifier sequences explored: every sequence of at most MaxMsgs
\* message numbers
IdSeqs == UNION {[1..n -> 1..MaxMsgs] : n \in 0..MaxMsgs}

\* i < len(ids): range(0, L, C) has a next value; chunk = ids[i:i + C]
ChunkTake ==
    /\ UNCHANGED notChunk
    /\ k_pc = "loop"
    /\ k_i < Len(k_ids)
    /\ k_chunks' = Append(k_chunks, Slice(k_ids, k_i, k_size))
    /\ k_i' = k_i + k_size
    /\ UNCHANGED <<k_pc, k_ids, k_size>>

\* range(0, L, C) is exhausted
ChunkStop ==
    /\ UNCHANGED notChunk
    /\ k_pc = "loop"
    /\ k_i >= Len(k_ids)
    /\ k_pc' = "done"
    /\ UNCHANGED <<k_ids, k_size, k_i, k_chunks>>

ChunkInit ==
    /\ k_pc = "loop"
    /\ k_ids \in IdSeqs
    /\ k_size \in 1..MaxChunk
    /\ k_i = 0
    /\ k_chunks = <<>>
    /\ RetryIdle
    /\ MoveIdle
    /\ CensusIdle
    /\ ReportIdle
    /\ EntryIdle
    /\ FetchIdle

ChunkNext ==
    \/ ChunkTake
    \/ ChunkStop

SpecChunk == ChunkInit /\ [][ChunkNext]_vars

(***************************************************************************)
(* Claims about the slicing, checked under SpecChunk.                      *)
(***************************************************************************)
RECURSIVE Concat(_)
Concat(ss) == IF ss = <<>> THEN <<>> ELSE Head(ss) \o Concat(Tail(ss))

\* ceil(L / C): the least n with n * C >= L
CeilDiv(L, C) == CHOOSE n \in 0..L : n * C >= L /\ \A m \in 0..(n - 1) : m * C < L

\* C11: the chunk list has ceil(L/C) chunks, every chunk but possibly the
\* last has exactly C identifiers, no chunk is empty, and the chunks
\* concatenated in order are the original sequence; while the loop runs, the
\* chunks made so far are the first i identifiers.
C11_ChunksPartitionInOrder ==
    /\ k_pc = "loop" =>
        /\ Concat(k_chunks) = SubSeq(k_ids, 1, Min(k_i, Len(k_ids)))
        /\ \A j \in 1..Len(k_chunks) : Len(k_chunks[j]) >= 1
    /\ k_pc = "done" =>
        /\ Len(k_chunks) = CeilDiv(Len(k_ids), k_size)
        /\ \A j \in 1..(Len(k_chunks) - 1) : Len(k_chunks[j]) = k_size
        /\ \A j \in 1..Len(k_chunks) : Len(k_chunks[j]) \in 1..k_size
        /\ Concat(k_chunks) = k_ids

\* a sequence that is not a multiple of the chunk size was sliced into several
\* chunks, the last one shorter
C11_Witness ==
    /\ k_pc = "done"
    /\ Len(k_chunks) >= 2
    /\ Len(k_chunks[Len(k_chunks)]) < k_size

(***************************************************************************)
(* The aggregation of the senders and the report: all_senders.extend(...)  *)
(* in the order the futures complete (imap_count.py) or senders.append in  *)
(* the order of the chunks (imap_delete.py), then Counter, the filter on   *)
(* the count and sorted(..., key=count, reverse=True).                     *)
(***************************************************************************)
\* MINIMUM_COUNT of imap_delete.py
MINIMUM_COUNT == 10

Addresses == {"a@x.com", "b@y.com", "c@z.com"}

\* n times the address a
RECURSIVE Rep(_, _)
Rep(a, n) == IF n = 0 THEN <<>> ELSE <<a>> \o Rep(a, n - 1)

\* the run lengths explored: absent, once, MaxRun times
RunLens == {0, 1, MaxRun}

\* the sender lists of one chunk that are explored
ChunkSenders ==
    {Rep("a@x.com", i) \o Rep("b@y.com", j) \o Rep("c@z.com", k) :
        i \in RunLens, j \in RunLens, k \in RunLens}

\* Counter(senders): the keys in the order of their first occurrence ...
RECURSIVE Keys(_)
Keys(list) ==
    IF list = <<>> THEN <<>>
    ELSE LET rest == Keys(SubSeq(list, 1, Len(list) - 1))
             x == list[Len(list)]
         IN IF \E i \in 1..Len(rest) : rest[i] = x THEN rest ELSE Append(rest, x)

\* ... and the number of occurrences of each
Count(list, a) == Cardinality({i \in 1..Len(list) : list[i] = a})

\* sender_counts.items()
Items(list) ==
    [i \in 1..Len(Keys(list)) |->
        [sender |-> Keys(list)[i], count |-> Count(list, Keys(list)[i])]]

\* if count > 1 (imap_count.py) / if count >= MINIMUM_COUNT (imap_delete.py)
KeepAny(variant, count) == TRUE

Keep(variant, count) ==
    IF variant = "delete" THEN count >= MINIMUM_COUNT ELSE count > 1

\* sorted(rows, key=lambda item: item[1], reverse=True): a stable sort, rows
\* with equal counts stay in the order they had
RECURSIVE SortedByCount(_)
SortedByCount(rows) ==
    IF rows = <<>> THEN <<>>
    ELSE LET init == SortedByCount(SubSeq(rows, 1, Len(rows) - 1))
             x == rows[Len(rows)]
             ahead == SelectSeq(init, LAMBDA r : r.count >= x.count)
             behind == SelectSeq(init, LAMBDA r : r.count < x.count)
         IN ahead \o <<x>> \o behind

\* filtered_sorted_senders
Table(variant, list) ==
    SortedByCount(SelectSeq(Items(list), LAMBDA r : Keep(variant, r.count)))

\* all_senders.extend(future.result()) for the next completed future, or the
\* senders of the next chunk of the sequential loop
ReportCollect ==
    /\ UNCHANGED notReport
    /\ p_pc = "collect"
    /\ \E c \in DOMAIN p_chunks \ p_done :
        /\ p_variant = "delete" => \A d \in DOMAIN p_chunks \ p_done : c <= d
        /\ p_all' = p_all \o p_chunks[c]
        /\ p_done' = p_done \cup {c}
    /\ UNCHANGED <<p_variant, p_pc, p_chunks, p_table>>

\* sender_counts = Counter(...); filtered_sorted_senders = sorted(...); print
ReportPrint ==
    /\ UNCHANGED notReport
    /\ p_pc = "collect"
    /\ p_done = DOMAIN p_chunks
    /\ p_table' = Table(p_variant, p_all)
    /\ p_pc' = "printed"
    /\ UNCHANGED <<p_variant, p_chunks, p_done, p_all>>

ReportInit ==
    /\ p_variant \in {"count", "delete"}
    /\ p_pc = "collect"
    /\ p_chunks \in UNION {[1..n -> ChunkSenders] : n \in 0..MaxReportChunks}
    /\ p_done = {}
    /\ p_all = <<>>
    /\ p_table = <<>>
    /\ RetryIdle
    /\ MoveIdle
    /\ CensusIdle
    /\ ChunkIdle
    /\ EntryIdle
    /\ FetchIdle

ReportNext ==
    \/ ReportCollect
    \/ ReportPrint

SpecReport == ReportInit /\ [][ReportNext]_vars

(***************************************************************************)
(* Claims about the report, checked under SpecReport.                      *)
(***************************************************************************)
\* the senders of the folder, in the order of the chunks
FolderSenders == Concat(p_chunks)

Occurrences(a) == Count(FolderSenders, a)

RowsOf(table) == {table[i] : i \in 1..Len(table)}

NonIncreasing(table) ==
    \A i, j \in 1..Len(table) : i < j => table[i].count >= table[j].count

\* the table holds exactly the addresses that occur at least t times, once
\* each, with their exact counts, in non-increasing order of count
IsReport(table, t) ==
    /\ RowsOf(table) = {[sender |-> a, count |-> Occurrences(a)] :
                           a \in {b \in Addresses : Occurrences(b) >= t}}
    /\ Len(table) = Cardinality(RowsOf(table))
    /\ NonIncreasing(table)

\* C12 (as claimed): in both programs the printed table is the report for one
\* and the same minimum-occurrence threshold, MINIMUM_COUNT.
C12_OneThresholdInBothPrograms ==
    p_pc = "printed" => IsReport(p_table, MINIMUM_COUNT)

\* the least count each program prints: count >= MINIMUM_COUNT in the
\* sequential program, count > 1 in the threaded one
Threshold(variant) == IF variant = "delete" THEN MINIMUM_COUNT ELSE 2

\* C12 (amended): each program prints exactly the addresses whose count
\* reaches that program's own threshold (MINIMUM_COUNT in imap_delete.py, 2
\* in imap_count.py), each with its exact count, in non-increasing order of
\* count; an address below that threshold never appears.
C12_ReportPerProgramThreshold ==
    p_pc = "printed" => IsReport(p_table, Threshold(p_variant))

\* a table of two rows whose order the sort had to change, with a third
\* address left out for being below the threshold
C12_Witness ==
    /\ p_pc = "printed"
    /\ Len(p_table) = 2
    /\ p_table[1].count > p_table[2].count
    /\ p_table[1].sender = "b@y.com"
    /\ p_table[2].sender = "a@x.com"
    /\ Occurrences("c@z.com") = 1

\* C13: the table printed by the threaded program does not depend on the order
\* in which the chunks complete: it is the table of the senders taken in the
\* order of the chunks, row for row.
C13_SameTableForEveryCompletionOrder ==
    (p_variant = "count" /\ p_pc = "printed") =>
        p_table = Table("count", FolderSenders)

(***************************************************************************)
(* The start of the four programs: the command line, the credentials of    *)
(* the environment, the connection, the login and the selection of the     *)
(* folder, and the exit status of the process.  "count" is imap_count.py,  *)
(* "delete" imap_delete.py, "move" imap_delete2.py, "folders"              *)
(* folder_list.py.  An exception nobody catches ends the process with      *)
(* status 1, a return to the end of the script with status 0.              *)
(***************************************************************************)
Programs == {"count", "delete", "move", "folders"}

\* if not user or not password: ... sys.exit(1)   (imap_delete2.py:42-44,
\* folder_list.py:11-13; imap_count.py and imap_delete.py have no such test)
CredsChecked(prog) == prog \in {"move", "folders"}

\* status of a wrong command line: sys.exit(1), or 2 from argparse
ArgsStatus(prog) == IF prog = "move" THEN 2 ELSE 1

\* imaplib's login(user, password): with no password _quote(None) raises an
\* AttributeError ("exc"); with no user a malformed LOGIN is sent and
\* rejected (IMAP4.error); otherwise the server accepts or rejects
LoginOutcomes(user, pass) ==
    IF ~pass THEN {"exc"}
    ELSE IF ~user THEN {"error"}
    ELSE {"ok", "error"}

\* the process ends with this status, given up at this step
EntryEnd(status, stop, mail) ==
    /\ e_pc' = "done"
    /\ e_exit' = status
    /\ e_stop' = stop
    /\ e_mail' = mail

\* finally: if mail: ... mail.logout()   (imap_delete2.py:152-159)
MailAfterFinally(prog, mail) ==
    IF prog = "move" /\ mail # "None" THEN "LOGOUT" ELSE mail

\* if len(sys.argv) > 1 ... else sys.exit(1); parser.parse_args()
EntryArgs ==
    /\ UNCHANGED notEntry
    /\ e_pc = "args"
    /\ IF e_args
       THEN /\ e_pc' = "creds"
            /\ UNCHANGED <<e_exit, e_stop, e_mail>>
       ELSE EntryEnd(ArgsStatus(e_prog), "args", e_mail)
    /\ UNCHANGED <<e_prog, e_user, e_pass, e_args, e_net, e_mutated>>

\* user = os.getenv('GMAIL_ACCT'); password = os.getenv('GMAIL_PASS') and,
\* where the program has it, the test of the two
EntryCreds ==
    /\ UNCHANGED notEntry
    /\ e_pc = "creds"
    /\ IF CredsChecked(e_prog) /\ ~(e_user /\ e_pass)
       THEN EntryEnd(1, "creds", e_mail)
       ELSE /\ e_pc' = "connect"
            /\ UNCHANGED <<e_exit, e_stop, e_mail>>
    /\ UNCHANGED <<e_prog, e_user, e_pass, e_args, e_net, e_mutated>>

\* imaplib.IMAP4_SSL(host, ...): the connection is opened, or socket.error
EntryConnect ==
    /\ UNCHANGED notEntry
    /\ e_pc = "connect"
    /\ \E out \in {"ok", "refused"} :
        IF out = "ok"
        THEN /\ e_net' = TRUE
             /\ e_mail' = "NONAUTH"
             /\ e_pc' = "login"
             /\ UNCHANGED <<e_exit, e_stop>>
        ELSE /\ UNCHANGED e_net
             /\ CASE e_prog = "count"   -> /\ e_pc' = "select"
                                           /\ UNCHANGED <<e_exit, e_stop, e_mail>>
                  [] e_prog = "folders" -> EntryEnd(0, "connect", e_mail)
                  [] OTHER              -> EntryEnd(1, "connect", e_mail)
    /\ UNCHANGED <<e_prog, e_user, e_pass, e_args, e_mutated>>

\* mail.login(user, password)
EntryLogin ==
    /\ UNCHANGED notEntry
    /\ e_pc = "login"
    /\ \E out \in LoginOutcomes(e_user, e_pass) :
        IF out = "ok"
        THEN /\ e_mail' = "AUTH"
             /\ e_pc' = IF e_prog = "folders" THEN "work" ELSE "select"
             /\ UNCHANGED <<e_exit, e_stop>>
        ELSE CASE e_prog = "count"   -> /\ e_pc' = "select"
                                        /\ UNCHANGED <<e_exit, e_stop, e_mail>>
               [] e_prog = "delete"  -> EntryEnd(IF out = "error" THEN 0 ELSE 1,
                                                 "login", e_mail)
               [] e_prog = "move"    -> EntryEnd(1, "login",
                                                 MailAfterFinally(e_prog, e_mail))
               [] OTHER              -> EntryEnd(0, "login", e_mail)
    /\ UNCHANGED <<e_prog, e_user, e_pass, e_args, e_net, e_mutated>>

\* status, _ = mail.select(folder); if status != 'OK': return
EntrySelect ==
    /\ UNCHANGED notEntry
    /\ e_pc = "select"
    /\ \E out \in (IF e_mail = "AUTH" THEN {"OK", "NO", "abort"} ELSE {"error"}) :
        CASE out = "OK" -> /\ e_mail' = "SELECTED"
                           /\ e_pc' = "work"
                           /\ UNCHANGED <<e_exit, e_stop>>
          [] out = "NO" -> EntryEnd(0, "select", MailAfterFinally(e_prog, e_mail))
          [] OTHER      -> EntryEnd(IF e_prog = "delete" THEN 1 ELSE 0, "select",
                                    MailAfterFinally(e_prog, e_mail))
    /\ UNCHANGED <<e_prog, e_user, e_pass, e_args, e_net, e_mutated>>

\* the rest of the run, to its normal end: the search, the chunks, the
\* report or the summary, the logout
EntryWork ==
    /\ UNCHANGED notEntry
    /\ e_pc = "work"
    /\ e_mutated' \in (IF e_prog = "move" THEN BOOLEAN ELSE {FALSE})
    /\ EntryEnd(0, "none", "LOGOUT")
    /\ UNCHANGED <<e_prog, e_user, e_pass, e_args, e_net>>

EntryInit ==
    /\ e_prog \in Programs
    /\ e_user \in BOOLEAN
    /\ e_pass \in BOOLEAN
    /\ e_args \in (IF e_prog = "folders" THEN {TRUE} ELSE BOOLEAN)
    /\ e_pc = IF e_prog = "folders" THEN "creds" ELSE "args"
    /\ e_mail = "None"
    /\ e_net = FALSE
    /\ e_mutated = FALSE
    /\ e_stop = "none"
    /\ e_exit = -1
    /\ RetryIdle
    /\ MoveIdle
    /\ CensusIdle
    /\ ChunkIdle
    /\ ReportIdle
    /\ FetchIdle

EntryNext ==
    \/ EntryArgs
    \/ EntryCreds
    \/ EntryConnect
    \/ EntryLogin
    \/ EntrySelect
    \/ EntryWork

SpecEntry == EntryInit /\ [][EntryNext]_vars

(***************************************************************************)
(* Claims about the start of the programs, checked under SpecEntry.        *)
(***************************************************************************)
CredsMissing == ~e_user \/ ~e_pass

\* C15: in each program, when the account or the secret is missing from the
\* environment, no connection to the server is ever opened, no mutation is
\* sent, and the program does not get to the login or beyond.
C15_NoNetworkWithoutCredentials ==
    CredsMissing =>
        /\ ~e_net
        /\ ~e_mutated
        /\ e_pc \notin {"login", "select", "work"}

\* C16: move_to_trash_explicit_fast and the threaded list_top_senders end
\* with status 0 when the run completes, and with a non-zero status when the
\* credentials are missing and when the folder cannot be selected.
C16_ExitStatusTellsSetupFailure ==
    (e_pc = "done" /\ e_prog \in {"move", "count"}) =>
        /\ e_stop = "none" => e_exit = 0
        /\ (e_args /\ (CredsMissing \/ e_stop = "select")) => e_exit # 0

(***************************************************************************)
(* fetch_chunk reading the senders of one chunk (imap_count.py:136-157):   *)
(* mail.fetch, which is ResilientIMAP.fetch with its retries, then one     *)
(* pass over the response parts.  A message is given by the From header    *)
(* field the server returns for it; the response holds one (envelope,      *)
(* literal) tuple per message, each followed by the closing b')'.          *)
(***************************************************************************)
\* what response_part[1] can be for one message: the bytes of the header
\* field as the server has it, empty when the message has no From header, or
\* something that is not bytes
Headers ==
    {[body |-> "bytes", field |-> "From:", value |-> "Ann <Ann@X.com>"],
     [body |-> "bytes", field |-> "FROM:", value |-> "b@y.com"],
     [body |-> "bytes", field |-> "From:", value |-> "undisclosed-recipients:;"],
     [body |-> "bytes", field |-> "", value |-> ""],
     [body |-> "none", field |-> "", value |-> ""]}

\* header_str.lower().startswith('from:')
StartsWithFrom(h) == h.field \in {"From:", "FROM:", "from:"}

\* parseaddr(header_str[5:])[1]: the address, '' when there is none
ParseAddr(value) ==
    CASE value = "Ann <Ann@X.com>" -> "Ann@X.com"
      [] value = "b@y.com"         -> "b@y.com"
      [] OTHER                     -> ""

\* email_address.lower()
LowerAddr(a) == IF a = "Ann@X.com" THEN "ann@x.com" ELSE a

\* msg_data of a FETCH that returned OK
PartsOf(msgs) ==
    [q \in 1..(2 * Len(msgs)) |->
        IF q % 2 = 1 THEN [tuple |-> TRUE, msg |-> (q + 1) \div 2,
                           header |-> msgs[(q + 1) \div 2]]
        ELSE [tuple |-> FALSE, msg |-> 0, header |-> [body |-> "bytes", field |-> "",
                                                      value |-> ")"]]]

\* except Exception as e: logging.debug(...); continue
AbortsChunk == "returned"

OnParseError == "parts"

\* status, msg_data = mail.fetch(fetch_ids, ...): one attempt of
\* _retry_operation; a connection-level error leads to the next attempt, the
\* exhausted budget and every other exception to "except Exception" of
\* fetch_chunk
FetchAttempt ==
    /\ UNCHANGED notFetch
    /\ f_pc = "fetch"
    /\ IF f_attempt >= CensusRetries
       THEN /\ f_pc' = "returned"
            /\ f_status' = "raised"
            /\ UNCHANGED <<f_attempt, f_data>>
       ELSE \E out \in {"OK", "NO", "abort", "error"} :
            CASE out = "OK"    -> /\ f_status' = "OK"
                                  /\ f_data' = PartsOf(f_msgs)
                                  /\ f_pc' = "parts"
                                  /\ UNCHANGED f_attempt
              [] out = "NO"    -> /\ f_status' = "NO"
                                  /\ f_pc' = "returned"
                                  /\ UNCHANGED <<f_attempt, f_data>>
              [] out = "abort" -> /\ f_attempt' = f_attempt + 1
                                  /\ UNCHANGED <<f_pc, f_status, f_data>>
              [] OTHER         -> /\ f_status' = "raised"
                                  /\ f_pc' = "returned"
                                  /\ UNCHANGED <<f_attempt, f_data>>
    /\ UNCHANGED <<f_msgs, f_j, f_senders, f_contrib>>

\* for response_part in msg_data: if isinstance(response_part, tuple): ...
FetchPart ==
    /\ UNCHANGED notFetch
    /\ f_pc = "parts"
    /\ f_j < Len(f_data)
    /\ LET part == f_data[f_j + 1]
           h == part.header
           address == ParseAddr(h.value)
       IN IF part.tuple /\ h.body # "bytes"
          THEN /\ f_pc' = OnParseError
               /\ UNCHANGED <<f_senders, f_contrib>>
          ELSE IF part.tuple /\ StartsWithFrom(h) /\ address # ""
               THEN /\ f_senders' = Append(f_senders, LowerAddr(address))
                    /\ f_contrib' = [f_contrib EXCEPT ![part.msg] = @ + 1]
                    /\ UNCHANGED f_pc
               ELSE UNCHANGED <<f_pc, f_senders, f_contrib>>
    /\ f_j' = f_j + 1
    /\ UNCHANGED <<f_msgs, f_attempt, f_status, f_data>>

\* return senders
FetchReturn ==
    /\ UNCHANGED notFetch
    /\ f_pc = "parts"
    /\ f_j = Len(f_data)
    /\ f_pc' = "returned"
    /\ UNCHANGED <<f_msgs, f_attempt, f_status, f_data, f_j, f_senders, f_contrib>>

FetchInit ==
    /\ f_pc = "fetch"
    /\ f_msgs \in UNION {[1..n -> Headers] : n \in 0..MaxMsgs}
    /\ f_attempt = 0
    /\ f_status = "none"
    /\ f_data = <<>>
    /\ f_j = 0
    /\ f_senders = <<>>
    /\ f_contrib = [i \in 1..Len(f_msgs) |-> 0]
    /\ RetryIdle
    /\ MoveIdle
    /\ CensusIdle
    /\ ChunkIdle
    /\ ReportIdle
    /\ EntryIdle

FetchNext ==
    \/ FetchAttempt
    \/ FetchPart
    \/ FetchReturn

SpecFetch == FetchInit /\ [][FetchNext]_vars

(***************************************************************************)
(* Claims about fetch_chunk, checked under SpecFetch.                      *)
(***************************************************************************)
\* the lower-cased address a message should contribute, "" when its From
\* header is missing, unreadable or holds no address
ExpectedAddress(h) ==
    CASE h = [body |-> "bytes", field |-> "From:", value |-> "Ann <Ann@X.com>"]
              -> "ann@x.com"
      [] h = [body |-> "bytes", field |-> "FROM:", value |-> "b@y.com"]
              -> "b@y.com"
      [] OTHER -> ""

ExpectedSenders ==
    SelectSeq([i \in 1..Len(f_msgs) |-> ExpectedAddress(f_msgs[i])],
              LAMBDA a : a # "")

\* C21: no message ever contributes more than one address, whatever the number
\* of attempts of the FETCH; when the FETCH returned OK and fetch_chunk has
\* returned, a message whose From header cannot be parsed or holds no address
\* has contributed nothing and every other message exactly its one
\* lower-cased address, in the order of the messages.
C21_ParseFailureIsolated ==
    /\ \A i \in 1..Len(f_msgs) : f_contrib[i] <= 1
    /\ (f_pc = "returned" /\ f_status = "OK") =>
        /\ \A i \in 1..Len(f_msgs) :
              f_contrib[i] = IF ExpectedAddress(f_msgs[i]) = "" THEN 0 ELSE 1
        /\ f_senders = ExpectedSenders
    /\ f_status # "OK" => f_senders = <<>>

\* after a retried FETCH, a chunk in which an unreadable part and a header
\* without address precede a good message has been read to its end
C21_Witness ==
    /\ f_pc = "returned"
    /\ f_status = "OK"
    /\ f_attempt >= 1
    /\ f_senders # <<>>
    /\ \E i, j, k \in 1..Len(f_msgs) :
        /\ i < k /\ j < k
        /\ f_msgs[i].body = "none"
        /\ f_msgs[j].value = "undisclosed-recipients:;"
        /\ ExpectedAddress(f_msgs[k]) = "ann@x.com"

====
